---- MODULE Spec2Model ----
(***************************************************************************)
(* ResNet-34 notebook (src/main.ipynb): the residual unit ResUnit, its     *)
(* forward pass, and the script that stacks the units into a Sequential    *)
(* model.  Tensors are abstracted to their shape plus the list of layers   *)
(* applied to the tensor a call started from; layer weights are not        *)
(* modelled.                                                               *)
(***************************************************************************)
EXTENDS Integers, Sequences, FiniteSets, TLC

VARIABLES pc, filter_configuration, stem_filters, model, previous_filters, idx,
          filters, strides, activation, model_input, x, li,
          unit, inputs, main_output, skip_output, mi, si, out

vars == <<pc, filter_configuration, stem_filters, model, previous_filters, idx,
          filters, strides, activation, model_input, x, li,
          unit, inputs, main_output, skip_output, mi, si, out>>

-----------------------------------------------------------------------------
(* Bounds of the explored inputs.                                          *)

MaxBatch == 2

MaxDim == 3

MaxChannels == 3

MaxFilters == 3

MaxStrides == 3

MaxSchedLen == 3

(* Program constants.                                                      *)

StemFilters == 64

ImageSize == 224

ImageChannels == 3

NumClasses == 10

ActivationNames == {"relu", "tanh"}

-----------------------------------------------------------------------------
(* Tensors: status "ok" with a shape, "error" for a raised shape error,    *)
(* "none" for a name not yet bound.  prov lists the layers applied since   *)
(* the tensor the current call received.                                   *)

Tensor(shape) == [status |-> "ok", shape |-> shape, prov |-> <<>>]

ErrorTensor == [status |-> "error", shape |-> <<>>, prov |-> <<>>]

NoTensor == [status |-> "none", shape |-> <<>>, prov |-> <<>>]

(* Layers.  padding is "same" and use_bias is False throughout.            *)

Layer(kind, f, k, s, a) ==
    [kind |-> kind, filters |-> f, kernel_size |-> k, strides |-> s, activation |-> a]

DefaultConv2DMissingStride(f, k, s) == Layer("Conv2D", f, k, 1, "")

DefaultConv2D(f, k, s) == Layer("Conv2D", f, k, s, "")

BatchNormalization == Layer("BatchNormalization", 0, 0, 0, "")

Activation(a) == Layer("Activation", 0, 0, 0, a)

MaxPool2D(k, s) == Layer("MaxPool2D", 0, k, s, "")

GlobalAvgPool2D == Layer("GlobalAvgPool2D", 0, 0, 0, "")

Flatten == Layer("Flatten", 0, 0, 0, "")

Dense(units, a) == Layer("Dense", units, 0, 0, a)

AddOp(lhs, rhs) == [kind |-> "add", lhs |-> lhs, rhs |-> rhs]

-----------------------------------------------------------------------------
(* Shape arithmetic of the framework layers.                               *)

FloorDim(n, s) == IF n \div s = 0 THEN 1 ELSE n \div s

SameDim(n, s) == (n + s - 1) \div s

ConvShapeFloor(l, sh) == <<sh[1], FloorDim(sh[2], l.strides), FloorDim(sh[3], l.strides), l.filters>>

ConvShape(l, sh) == <<sh[1], SameDim(sh[2], l.strides), SameDim(sh[3], l.strides), l.filters>>

PoolShape(l, sh) == <<sh[1], SameDim(sh[2], l.strides), SameDim(sh[3], l.strides), sh[4]>>

FlattenShape(sh) ==
    IF Len(sh) = 4 THEN <<sh[1], sh[2] * sh[3] * sh[4]>> ELSE sh

OutShape(l, sh) ==
    CASE l.kind = "Conv2D" -> ConvShape(l, sh)
      [] l.kind = "BatchNormalization" -> sh
      [] l.kind = "Activation" -> sh
      [] l.kind = "MaxPool2D" -> PoolShape(l, sh)
      [] l.kind = "GlobalAvgPool2D" -> <<sh[1], sh[4]>>
      [] l.kind = "Flatten" -> FlattenShape(sh)
      [] l.kind = "Dense" -> <<sh[1], l.filters>>

Apply(l, t) ==
    IF t.status # "ok" THEN t
    ELSE [status |-> "ok", shape |-> OutShape(l, t.shape), prov |-> Append(t.prov, l)]

(* Elementwise + of two tensors: dimensions broadcast when equal or 1.     *)

Compatible(p, q) == p = q \/ p = 1 \/ q = 1

BroadcastDim(p, q) == IF p = 1 THEN q ELSE p

Add(a, b) ==
    IF a.status # "ok" \/ b.status # "ok" THEN ErrorTensor
    ELSE IF Len(a.shape) = Len(b.shape)
            /\ \A d \in 1..Len(a.shape) : Compatible(a.shape[d], b.shape[d])
         THEN [status |-> "ok",
               shape |-> [d \in 1..Len(a.shape) |-> BroadcastDim(a.shape[d], b.shape[d])],
               prov |-> <<AddOp(a.prov, b.prov)>>]
         ELSE ErrorTensor

-----------------------------------------------------------------------------
(* ResUnit.__init__                                                         *)

MainLayers(f, s, act) ==
    << DefaultConv2D(f, 3, s),
       BatchNormalization,
       act,
       DefaultConv2D(f, 3, 1),
       BatchNormalization >>

SkipLayersAlways(f, s) ==
    << DefaultConv2D(f, 1, s), BatchNormalization >>

SkipLayersUnstrided(f, s) ==
    IF s > 1
    THEN << DefaultConv2DMissingStride(f, 1, s), BatchNormalization >>
    ELSE << >>

SkipLayers(f, s) ==
    IF s > 1
    THEN << DefaultConv2D(f, 1, s), BatchNormalization >>
    ELSE << >>

ResUnit(f, s, a) ==
    [kind |-> "ResUnit",
     activation |-> Activation(a),
     main_layers |-> MainLayers(f, s, Activation(a)),
     skip_layers |-> SkipLayers(f, s)]

NoUnit == [kind |-> "none", activation |-> Activation(""),
           main_layers |-> << >>, skip_layers |-> << >>]

(* ResUnit.call: the tensor the skip path starts from, and the merge.      *)

SkipStartFromMain(inp, main) == main

SkipStart(inp, main) == inp

Merged(u, main, skip) == Apply(u.activation, Add(main, skip))

-----------------------------------------------------------------------------
(* The model-building script.                                              *)

CanonicalConfiguration ==
    [k \in 1..3 |-> 64] \o [k \in 1..4 |-> 128] \o [k \in 1..6 |-> 256] \o [k \in 1..3 |-> 512]

StemLayers(f) ==
    << DefaultConv2D(f, 7, 2),
       BatchNormalization,
       Activation("relu"),
       MaxPool2D(3, 2) >>

HeadLayers ==
    << GlobalAvgPool2D, Flatten, Dense(NumClasses, "softmax") >>

StridesAlwaysOne(f, prev) == 1

StridesInverted(f, prev) == IF f = prev THEN 2 ELSE 1

StridesFor(f, prev) == IF f = prev THEN 1 ELSE 2

KeepPrevious(f, prev) == prev

NextPrevious(f, prev) == f

-----------------------------------------------------------------------------
(* Initial states.                                                         *)

Blank ==
    /\ model = << >>
    /\ previous_filters = 0
    /\ idx = 0
    /\ model_input = NoTensor
    /\ x = NoTensor
    /\ li = 0
    /\ unit = NoUnit
    /\ inputs = NoTensor
    /\ main_output = NoTensor
    /\ skip_output = NoTensor
    /\ mi = 0
    /\ si = 0
    /\ out = NoTensor

\* The notebook as written.
Init ==
    /\ pc = "start"
    /\ filter_configuration = CanonicalConfiguration
    /\ stem_filters = StemFilters
    /\ filters = 0
    /\ strides = 0
    /\ activation = "relu"
    /\ Blank

Schedules ==
    UNION { [1..n -> 1..MaxFilters] : n \in 0..MaxSchedLen }

\* The script run on any stage schedule and stem channel count.
GenInit ==
    /\ pc = "start"
    /\ filter_configuration \in Schedules \cup {CanonicalConfiguration}
    /\ stem_filters \in (1..MaxFilters) \cup {StemFilters}
    /\ filters = 0
    /\ strides = 0
    /\ activation = "relu"
    /\ Blank

\* One ResUnit on its own, with any constructor arguments.
UnitInit ==
    /\ pc = "unit_args"
    /\ filter_configuration = << >>
    /\ stem_filters = 0
    /\ filters \in 1..MaxFilters
    /\ strides \in 1..MaxStrides
    /\ activation \in ActivationNames
    /\ Blank

-----------------------------------------------------------------------------
(* Script actions.                                                         *)

CreateModel ==
    /\ pc = "start"
    /\ model' = StemLayers(stem_filters)
    /\ previous_filters' = stem_filters
    /\ idx' = 1
    /\ pc' = "loop"
    /\ UNCHANGED <<filter_configuration, stem_filters, filters, strides, activation,
                   model_input, x, li, unit, inputs, main_output, skip_output, mi, si, out>>

LoopIter ==
    /\ pc = "loop"
    /\ idx <= Len(filter_configuration)
    /\ filters' = filter_configuration[idx]
    /\ strides' = StridesFor(filters', previous_filters)
    /\ model' = Append(model, ResUnit(filters', strides', "relu"))
    /\ previous_filters' = NextPrevious(filters', previous_filters)
    /\ idx' = idx + 1
    /\ UNCHANGED <<pc, filter_configuration, stem_filters, activation,
                   model_input, x, li, unit, inputs, main_output, skip_output, mi, si, out>>

AddHead ==
    /\ pc = "loop"
    /\ idx > Len(filter_configuration)
    /\ model' = model \o HeadLayers
    /\ pc' = "built"
    /\ UNCHANGED <<filter_configuration, stem_filters, previous_filters, idx, filters,
                   strides, activation, model_input, x, li, unit, inputs, main_output,
                   skip_output, mi, si, out>>

(* Sequential.__call__ on a batch of images.                               *)

Predict ==
    /\ pc = "built"
    /\ \E n \in 1..MaxBatch :
          model_input' = Tensor(<<n, ImageSize, ImageSize, ImageChannels>>)
    /\ x' = model_input'
    /\ li' = 1
    /\ pc' = "eval"
    /\ UNCHANGED <<filter_configuration, stem_filters, model, previous_filters, idx,
                   filters, strides, activation, unit, inputs, main_output, skip_output,
                   mi, si, out>>

ApplyLayer ==
    /\ pc = "eval"
    /\ li <= Len(model)
    /\ model[li].kind # "ResUnit"
    /\ x' = Tensor(Apply(model[li], x).shape)
    /\ li' = li + 1
    /\ UNCHANGED <<pc, filter_configuration, stem_filters, model, previous_filters, idx,
                   filters, strides, activation, model_input, unit, inputs, main_output,
                   skip_output, mi, si, out>>

EnterUnit ==
    /\ pc = "eval"
    /\ li <= Len(model)
    /\ model[li].kind = "ResUnit"
    /\ unit' = model[li]
    /\ inputs' = x
    /\ main_output' = x
    /\ skip_output' = NoTensor
    /\ out' = NoTensor
    /\ mi' = 1
    /\ si' = 0
    /\ pc' = "main"
    /\ UNCHANGED <<filter_configuration, stem_filters, model, previous_filters, idx,
                   filters, strides, activation, model_input, x, li>>

-----------------------------------------------------------------------------
(* A ResUnit used on its own.                                              *)

UnitConstruct ==
    /\ pc = "unit_args"
    /\ unit' = ResUnit(filters, strides, activation)
    /\ pc' = "constructed"
    /\ UNCHANGED <<filter_configuration, stem_filters, model, previous_filters, idx,
                   filters, strides, activation, model_input, x, li, inputs, main_output,
                   skip_output, mi, si, out>>

UnitCall ==
    /\ pc = "constructed"
    /\ \E n \in 1..MaxBatch, h \in 1..MaxDim, w \in 1..MaxDim, c \in 1..MaxChannels :
          inputs' = Tensor(<<n, h, w, c>>)
    /\ main_output' = inputs'
    /\ mi' = 1
    /\ pc' = "main"
    /\ UNCHANGED <<filter_configuration, stem_filters, model, previous_filters, idx,
                   filters, strides, activation, model_input, x, li, unit, skip_output,
                   si, out>>

-----------------------------------------------------------------------------
(* ResUnit.call                                                            *)

MainStep ==
    /\ pc = "main"
    /\ mi <= Len(unit.main_layers)
    /\ main_output' = Apply(unit.main_layers[mi], main_output)
    /\ mi' = mi + 1
    /\ UNCHANGED <<pc, filter_configuration, stem_filters, model, previous_filters, idx,
                   filters, strides, activation, model_input, x, li, unit, inputs,
                   skip_output, si, out>>

SkipBegin ==
    /\ pc = "main"
    /\ mi > Len(unit.main_layers)
    /\ skip_output' = SkipStart(inputs, main_output)
    /\ si' = 1
    /\ pc' = "skip"
    /\ UNCHANGED <<filter_configuration, stem_filters, model, previous_filters, idx,
                   filters, strides, activation, model_input, x, li, unit, inputs,
                   main_output, mi, out>>

SkipStep ==
    /\ pc = "skip"
    /\ si <= Len(unit.skip_layers)
    /\ skip_output' = Apply(unit.skip_layers[si], skip_output)
    /\ si' = si + 1
    /\ UNCHANGED <<pc, filter_configuration, stem_filters, model, previous_filters, idx,
                   filters, strides, activation, model_input, x, li, unit, inputs,
                   main_output, mi, out>>

\* return self.activation(main_output + skip_output); a failed add raises and
\* ends the run, otherwise the caller (the Sequential loop, if any) goes on.
Merge ==
    /\ pc = "skip"
    /\ si > Len(unit.skip_layers)
    /\ out' = Merged(unit, main_output, skip_output)
    /\ IF out'.status # "ok"
       THEN pc' = "raised" /\ UNCHANGED <<x, li>>
       ELSE IF li > 0
            THEN pc' = "eval" /\ x' = Tensor(out'.shape) /\ li' = li + 1
            ELSE pc' = "returned" /\ UNCHANGED <<x, li>>
    /\ UNCHANGED <<filter_configuration, stem_filters, model, previous_filters, idx,
                   filters, strides, activation, model_input, unit, inputs, main_output,
                   skip_output, mi, si>>

-----------------------------------------------------------------------------

Next ==
    \/ CreateModel
    \/ LoopIter
    \/ AddHead
    \/ Predict
    \/ ApplyLayer
    \/ EnterUnit
    \/ MainStep
    \/ SkipBegin
    \/ SkipStep
    \/ Merge

UnitNext ==
    \/ UnitConstruct
    \/ UnitCall
    \/ MainStep
    \/ SkipBegin
    \/ SkipStep
    \/ Merge

Spec == Init /\ [][Next]_vars

GenSpec == GenInit /\ [][Next]_vars

UnitSpec == UnitInit /\ [][UnitNext]_vars

-----------------------------------------------------------------------------
(* Properties.                                                             *)

Units == SelectSeq(model, LAMBDA l : l.kind = "ResUnit")

UnitFilters(u) == u.main_layers[1].filters

UnitStrides(u) == u.main_layers[1].strides

LoopOver == pc \notin {"start", "loop"}

CallOver == pc \in {"returned", "raised"}

Finished == pc = "eval" /\ li > Len(model)

ExpectedFilters ==
    <<64, 64, 64, 128, 128, 128, 128, 256, 256, 256, 256, 256, 256, 512, 512, 512>>

ExpectedStrides ==
    <<1, 1, 1, 2, 1, 1, 1, 2, 1, 1, 1, 1, 1, 2, 1, 1>>

\* C1: on the canonical schedule with previous_filters starting at 64 the loop
\* builds exactly 16 residual units, in schedule order, with strides
\* 1,1,1,2,1,1,1,2,1,1,1,1,1,2,1,1 (a prefix of them while the loop runs).
C1_CanonicalStrides ==
    /\ pc = "loop" => Len(Units) = idx - 1
    /\ LoopOver => Len(Units) = 16
    /\ \A k \in 1..Len(Units) :
          /\ k <= 16
          /\ UnitFilters(Units[k]) = ExpectedFilters[k]
          /\ UnitStrides(Units[k]) = ExpectedStrides[k]

C1_Witness ==
    /\ pc = "built"
    /\ Len(Units) = 16
    /\ UnitStrides(Units[14]) = 2

\* C2: for every schedule and stem channel count, each appended unit has
\* stride 2 exactly when its filter count differs from that of the unit before
\* it (the stem's output channel count for the first unit) and stride 1
\* otherwise, and previous_filters is the filter count of the last appended unit.
C2_StrideIffFiltersChange ==
    /\ \A k \in 1..Len(Units) :
          LET before == IF k = 1 THEN model[1].filters ELSE UnitFilters(Units[k - 1])
          IN  /\ UnitFilters(Units[k]) = filter_configuration[k]
              /\ UnitFilters(Units[k]) # before => UnitStrides(Units[k]) = 2
              /\ UnitFilters(Units[k]) = before => UnitStrides(Units[k]) = 1
    /\ Len(Units) >= 1 => previous_filters = UnitFilters(Units[Len(Units)])

C2_Witness ==
    /\ pc = "loop"
    /\ Len(Units) = 3
    /\ UnitStrides(Units[2]) = 2
    /\ UnitStrides(Units[3]) = 1
    /\ previous_filters = UnitFilters(Units[3])

\* C3 as stated: the first residual unit appended has stride 1 on every schedule.
C3_FirstUnitStrideOne ==
    Len(Units) >= 1 => UnitStrides(Units[1]) = 1

\* C3 as amended: the first residual unit has stride 1 exactly when the first
\* schedule entry equals the stem's channel count (as in the canonical
\* schedule, both 64), and stride 2 otherwise.
C3_FirstUnitStrideOneIffStemMatches ==
    Len(Units) >= 1 =>
        /\ UnitStrides(Units[1]) \in {1, 2}
        /\ UnitStrides(Units[1]) = 1 <=> filter_configuration[1] = stem_filters

C3_Witness ==
    /\ Len(Units) >= 1
    /\ filter_configuration = CanonicalConfiguration
    /\ stem_filters = 64
    /\ UnitStrides(Units[1]) = 1

\* C4: a constructed ResUnit has 5 main sub-layers, conv(stride=strides),
\* normalize, activate, conv(stride=1), normalize, and its skip path has the
\* 2 sub-layers 1x1 conv (same stride and filters), normalize when strides > 1
\* and no sub-layer when strides = 1.
C4_LayerLists ==
    pc # "unit_args" =>
        /\ Len(unit.main_layers) = 5
        /\ [k \in 1..5 |-> unit.main_layers[k].kind] =
              <<"Conv2D", "BatchNormalization", "Activation", "Conv2D", "BatchNormalization">>
        /\ unit.main_layers[1].strides = strides
        /\ unit.main_layers[1].filters = filters
        /\ unit.main_layers[1].kernel_size = 3
        /\ unit.main_layers[4].strides = 1
        /\ unit.main_layers[4].filters = filters
        /\ unit.main_layers[4].kernel_size = 3
        /\ Len(unit.skip_layers) \in {0, 2}
        /\ strides = 1 <=> Len(unit.skip_layers) = 0
        /\ strides > 1 =>
              /\ Len(unit.skip_layers) = 2
              /\ unit.skip_layers[1].kind = "Conv2D"
              /\ unit.skip_layers[1].kernel_size = 1
              /\ unit.skip_layers[1].strides = strides
              /\ unit.skip_layers[1].filters = filters
              /\ unit.skip_layers[2].kind = "BatchNormalization"

C4_Witness ==
    /\ pc = "constructed"
    /\ strides = 3
    /\ Len(unit.main_layers) = 5
    /\ Len(unit.skip_layers) = 2

\* C5 as stated: a ResUnit with strides = 1 called on an input whose channel
\* count differs from filters raises instead of returning an output.
C5_MismatchRejected ==
    (CallOver /\ strides = 1 /\ inputs.shape[4] # filters) => pc = "raised"

\* C6: with strides > 1 the call returns shape (N, ceil(H/strides),
\* ceil(W/strides), filters) for every input shape (N, H, W, C_in).
C6_StridedOutputShape ==
    (CallOver /\ strides > 1) =>
        /\ pc = "returned"
        /\ out.status = "ok"
        /\ Len(out.shape) = 4
        /\ out.shape[1] = inputs.shape[1]
        /\ out.shape[2] * strides >= inputs.shape[2]
        /\ (out.shape[2] - 1) * strides < inputs.shape[2]
        /\ out.shape[3] * strides >= inputs.shape[3]
        /\ (out.shape[3] - 1) * strides < inputs.shape[3]
        /\ out.shape[4] = filters

C6_Witness ==
    /\ pc = "returned"
    /\ strides = 2
    /\ inputs.shape = <<1, 3, 1, 2>>
    /\ filters = 3
    /\ out.shape = <<1, 2, 1, 3>>

\* C7 as stated: with strides = 1 the skip output is the unmodified input and
\* the output shape equals the input shape exactly when the input channel
\* count equals filters.
C7_IdentitySkipShape ==
    (CallOver /\ strides = 1) =>
        /\ skip_output = inputs
        /\ (pc = "returned" /\ out.shape = inputs.shape) <=> inputs.shape[4] = filters

\* C8: the network built from the canonical schedule maps (N,224,224,3) to
\* (N,10), through (N,56,56,64) after the stem and (N,7,7,512) before the
\* head, and no layer raises a shape error.
C8_EndToEndShape ==
    /\ pc # "raised"
    /\ (pc = "eval" /\ li = 5) => x.shape = <<model_input.shape[1], 56, 56, 64>>
    /\ (pc = "eval" /\ li = Len(model) - 2) => x.shape = <<model_input.shape[1], 7, 7, 512>>
    /\ Finished => /\ x.status = "ok"
                   /\ x.shape = <<model_input.shape[1], 10>>
                   /\ model_input.shape = <<model_input.shape[1], 224, 224, 3>>

C8_Witness ==
    /\ Finished
    /\ Len(model) = 23
    /\ model_input.shape = <<1, 224, 224, 3>>
    /\ x.shape = <<1, 10>>

\* C9: in a built network, at every residual unit the main-path output and the
\* skip-path output have the same shape when they are added.
C9_MergeShapesAgree ==
    (li > 0 /\ pc = "skip" /\ si > Len(unit.skip_layers)) =>
        /\ main_output.status = "ok"
        /\ skip_output.status = "ok"
        /\ main_output.shape = skip_output.shape

C9_Witness ==
    /\ li > 0
    /\ pc = "skip"
    /\ si > Len(unit.skip_layers)
    /\ Len(unit.skip_layers) = 2
    /\ inputs.shape[4] # UnitFilters(unit)
    /\ main_output.shape = skip_output.shape

\* C10: the call applies the main sub-layers in list order from the input, the
\* skip sub-layers in list order from the original input, then adds the two
\* results and applies the shared activation once to the sum.
C10_CallOrder ==
    /\ pc = "main" =>
          main_output.prov = SubSeq(unit.main_layers, 1, mi - 1)
    /\ pc = "skip" =>
          /\ main_output.prov = unit.main_layers
          /\ skip_output.prov = SubSeq(unit.skip_layers, 1, si - 1)
    /\ CallOver =>
          /\ inputs.prov = << >>
          /\ main_output.prov = unit.main_layers
          /\ skip_output.prov = unit.skip_layers
          /\ unit.activation = unit.main_layers[3]
          /\ unit.activation.activation = activation
    /\ pc = "returned" =>
          out.prov = <<AddOp(unit.main_layers, unit.skip_layers), unit.activation>>

C10_Witness ==
    /\ pc = "returned"
    /\ activation = "tanh"
    /\ Len(skip_output.prov) = 2
    /\ Len(out.prov) = 2

====
